---- MODULE Spec2Model ----
(***************************************************************************)
(* adalanche main(): the load of the object cache, the injection of the    *)
(* well-known SIDs, the pre-processing pass (membership, Everyone and      *)
(* Authenticated Users, dynamic registration of the LAPS analyzer) and the *)
(* analyzer evaluation pass that records the CanPwn / PwnableBy edges.     *)
(*                                                                         *)
(* Objects are referred to by their distinguished name: the store's dnmap  *)
(* keeps one *Object per DN, and a pointer comparison in the code is a DN  *)
(* comparison here.  The enumeration order of AllObjects.AsArray() is left *)
(* open (any order of the snapshot), the order of PwnAnalyzers is the      *)
(* order of registration.                                                  *)
(*                                                                         *)
(* One cache file is loaded (with -domain a,b the load loop is run once    *)
(* per file on the same store).  Of the pre-processing loop body the       *)
(* writes that no later statement of main() reads are left out: the Meta*  *)
(* attributes, the trust log lines and the AllRights, AllSchemaAttributes  *)
(* and AllSchemaClasses indexes.  The analyzers registered outside main()  *)
(* are not part of the registry here; it starts empty and holds the LAPS   *)
(* analyzers main() registers.                                             *)
(***************************************************************************)
EXTENDS Naturals, Sequences, FiniteSets, TLC

\* ------------------------------------------------------------ bounds

\* Most records one cache file holds.
MaxRecords == 3

\* Longest DACL the analyzer is applied to in SpecLAPS.
MaxAces == 2

\* ------------------------------------------------------------ SIDs

SelfSID == "S-1-5-10"

CreatorOwnerSID == "S-1-3-0"

SystemSID == "S-1-5-18"

everyonesid == "S-1-1-0"

authenticateduserssid == "S-1-5-11"

\* SID() of an object without an objectSid attribute.
NoSID == ""

\* The sidmap's answer for a SID no object carries.
NoObject == "<nil>"

\* ------------------------------------------------------------ objects

ObjectTypeUser == "User"

ObjectTypeComputer == "Computer"

ObjectTypeManagedServiceAccount == "ManagedServiceAccount"

ObjectTypeGroup == "Group"

ObjectTypeOther == "Other"

PwnReadLAPSPassword == "ReadLAPSPassword"

ACETYPE_ACCESS_ALLOWED_OBJECT == "ACCESS_ALLOWED_OBJECT"

ACETYPE_ACCESS_ALLOWED == "ACCESS_ALLOWED"

ACETYPE_ACCESS_DENIED_OBJECT == "ACCESS_DENIED_OBJECT"

\* Mask & RIGHT_DS_READ_PROPERTY != 0 is membership of this right in the mask.
RIGHT_DS_READ_PROPERTY == "DS_READ_PROPERTY"

RIGHT_DS_WRITE_PROPERTY == "DS_WRITE_PROPERTY"

\* schemaIDGUID values; BadGUID is a value uuid.FromBytes rejects.
GUID1 == "guid-1"

GUID2 == "guid-2"

BadGUID == "guid-short"

\* An nTSecurityDescriptor blob: whether it decodes, and the DACL entries the
\* decoder gets out of it (for a truncated blob, those before the cut).
Blob(entries) == [valid |-> TRUE, entries |-> entries]

Truncated(entries) == [valid |-> FALSE, entries |-> entries]

ACE(type, mask, guid, sid) ==
    [Type |-> type, Mask |-> mask, ObjectType |-> guid, SID |-> sid]

ReadACE(guid, sid) ==
    ACE(ACETYPE_ACCESS_ALLOWED_OBJECT, {RIGHT_DS_READ_PROPERTY}, guid, sid)

\* One decoded directory object: the attributes the passes read.
Object(class, name, sid, guid, laps, sd, memberOfAttr) ==
    [objectClass |-> class, objectCategory |-> "", name |-> name, sid |-> sid,
     schemaIDGUID |-> guid, laps |-> laps, sd |-> sd, memberOf |-> memberOfAttr]

\* The records a cache file is made of, by distinguished name.
RawObjects ==
    "CN=ms-Mcs-AdmPwd,CN=Schema" :>
        Object("attributeSchema", "ms-Mcs-AdmPwd", NoSID, GUID1, FALSE, Blob(<<>>), <<>>)
    @@ "CN=ms-Mcs-AdmPwd,CN=Schema2" :>
        Object("attributeSchema", "ms-Mcs-AdmPwd", NoSID, GUID1, FALSE, Blob(<<>>), <<>>)
    @@ "CN=ms-Mcs-AdmPwd,CN=Schema3" :>
        Object("attributeSchema", "ms-Mcs-AdmPwd", NoSID, GUID2, FALSE, Blob(<<>>), <<>>)
    @@ "CN=ms-Mcs-AdmPwd,CN=Broken" :>
        Object("attributeSchema", "ms-Mcs-AdmPwd", NoSID, BadGUID, FALSE, Blob(<<>>), <<>>)
    @@ "CN=PC1" :>
        Object("computer", "PC1", "S-1-5-21-1001", NoSID, TRUE,
               Blob(<< ReadACE(GUID1, "S-1-5-21-500"),
                       ReadACE(GUID1, "S-1-5-21-1001"),
                       ReadACE(GUID1, SystemSID) >>), <<>>)
    @@ "CN=PC2" :>
        Object("computer", "PC2", "S-1-5-21-500", NoSID, TRUE,
               Blob(<< ReadACE(GUID1, "S-1-5-21-500"),
                       ReadACE(GUID1, "S-1-5-21-777"),
                       ACE(ACETYPE_ACCESS_ALLOWED_OBJECT, {RIGHT_DS_WRITE_PROPERTY},
                           GUID1, "S-1-5-21-1001") >>), <<>>)
    @@ "CN=PC3" :>
        Object("computer", "PC3", SystemSID, NoSID, TRUE,
               Blob(<< ReadACE(GUID1, "S-1-5-21-500"),
                       ReadACE(GUID2, "S-1-5-21-1001") >>), <<>>)
    @@ "CN=PC4" :>
        Object("computer", "PC4", "S-1-5-21-1004", NoSID, TRUE,
               Truncated(<< ReadACE(GUID1, "S-1-5-21-500") >>), <<>>)
    @@ "CN=Alice" :>
        Object("user", "Alice", "S-1-5-21-500", NoSID, FALSE, Blob(<<>>),
               << "CN=Staff" >>)
    @@ "CN=Staff" :>
        Object("group", "Staff", "S-1-5-21-600", NoSID, FALSE, Blob(<<>>),
               << "CN=Staff", "CN=Gone" >>)
    @@ "CN=svc" :>
        Object("msDS-ManagedServiceAccount", "svc", "S-1-5-21-700", NoSID, TRUE,
               Blob(<< ReadACE(GUID1, "S-1-5-21-500") >>), <<>>)

\* The order the records have in a cache file.
RecordOrder ==
    << "CN=ms-Mcs-AdmPwd,CN=Schema", "CN=ms-Mcs-AdmPwd,CN=Schema2",
       "CN=ms-Mcs-AdmPwd,CN=Schema3", "CN=ms-Mcs-AdmPwd,CN=Broken",
       "CN=PC1", "CN=PC2", "CN=PC3", "CN=PC4", "CN=Alice", "CN=Staff",
       "CN=svc" >>

\* A cache file: complete records in file order, then how the file ends.
\*   "eof"      the stream ends after the last complete record
\*   "cutfield" a final record cut off between two of its fields
\*   "cutvalue" a final record cut off inside one of its values
Tails == {"eof", "cutfield", "cutvalue"}

Streams ==
    { SelectSeq(RecordOrder, LAMBDA dn : dn \in S) :
        S \in { T \in SUBSET DOMAIN RawObjects : Cardinality(T) <= MaxRecords } }

\* The well-known SIDs injected after the load, with their names.
knownsids ==
    SystemSID :> "Local System" @@ everyonesid :> "Everyone"

KnownDN(sid) == "CN=" \o knownsids[sid] \o ",DN=microsoft-builtin"

KnownObject(sid) ==
    [Object("user", knownsids[sid], sid, NoSID, FALSE, Blob(<<>>), <<>>)
        EXCEPT !.objectCategory = "Group"]

\* The placeholder FindOrAddSID registers for a SID no object carries.
PlaceholderDN(sid) == "CN=" \o sid \o ",CN=placeholder"

PlaceholderObject(sid) ==
    Object("", sid, sid, NoSID, FALSE, Blob(<<>>), <<>>)

\* Every SID an object or an ACE of the model carries.
AllSIDs ==
    {SelfSID, CreatorOwnerSID, SystemSID, everyonesid, authenticateduserssid,
     "S-1-5-21-500", "S-1-5-21-600", "S-1-5-21-700", "S-1-5-21-777",
     "S-1-5-21-1001", "S-1-5-21-1004"}

AllDNs ==
    DOMAIN RawObjects \cup { KnownDN(s) : s \in DOMAIN knownsids }
        \cup { PlaceholderDN(s) : s \in AllSIDs }

VARIABLES
    input,      \* the cache file: [recs, tail], never changed
    pc,         \* the statement main() is at
    pos,        \* the record the load loop decodes next
    AllObjects, \* the store: [dnmap: DN -> object, sidmap: SID -> DN]
    everyone,   \* the Everyone object of the pre-processing pass
    authenticatedusers,
    array,      \* the AsArray() snapshot the running pass ranges over
    todo,       \* the objects of array the running pass has yet to visit
    memberof,   \* object.memberof, by DN
    members,    \* the reverse links imamemberofyou registers, by DN
    PwnAnalyzers, \* the registry: a sequence of [Method, objectGUID]
    object,     \* the evaluation loop's object
    ai,         \* the evaluation loop's place in PwnAnalyzers
    results,    \* what is left of analyzer.ObjectAnalyzer(object)
    CanPwn,     \* object.CanPwn, by DN: a sequence of [Method, Target]
    PwnableBy,  \* object.PwnableBy, by DN
    pwnlinks,   \* the counter of recorded links
    ran         \* by DN, the places of the analyzers run on it, in order

vars ==
    << input, pc, pos, AllObjects, everyone, authenticatedusers, array, todo,
       memberof, members, PwnAnalyzers, object, ai, results, CanPwn, PwnableBy,
       pwnlinks, ran >>

\* ------------------------------------------------------------ the store

SID(store, dn) == store.dnmap[dn].sid

FindSID(store, sid) ==
    IF sid \in DOMAIN store.sidmap THEN store.sidmap[sid] ELSE NoObject

\* Add: the object is registered under its DN and, when it has one, its SID.
Add(store, dn, obj) ==
    [dnmap |-> (dn :> obj) @@ store.dnmap,
     sidmap |-> IF obj.sid = NoSID THEN store.sidmap
                ELSE (obj.sid :> dn) @@ store.sidmap]

\* FindOrAddSID: the object of that SID, registered as a placeholder if new.
FindOrAddSID(store, sid) ==
    IF FindSID(store, sid) # NoObject
    THEN [store |-> store, obj |-> FindSID(store, sid)]
    ELSE [store |-> Add(store, PlaceholderDN(sid), PlaceholderObject(sid)),
          obj |-> PlaceholderDN(sid)]

AsArray(store) == DOMAIN store.dnmap

Type(obj) ==
    CASE obj.objectCategory = "Group" -> ObjectTypeGroup
      [] obj.objectClass = "user" -> ObjectTypeUser
      [] obj.objectClass = "computer" -> ObjectTypeComputer
      [] obj.objectClass = "msDS-ManagedServiceAccount" ->
            ObjectTypeManagedServiceAccount
      [] obj.objectClass = "group" -> ObjectTypeGroup
      [] OTHER -> ObjectTypeOther

EmptyStore == [dnmap |-> << >>, sidmap |-> << >>]

NoLists == [dn \in AllDNs |-> << >>]

Init ==
    /\ input \in [recs : Streams, tail : Tails]
    /\ pc = "load"
    /\ pos = 1
    /\ AllObjects = EmptyStore
    /\ everyone = NoObject
    /\ authenticatedusers = NoObject
    /\ array = {}
    /\ todo = {}
    /\ memberof = NoLists
    /\ members = NoLists
    /\ PwnAnalyzers = << >>
    /\ object = NoObject
    /\ ai = 0
    /\ results = << >>
    /\ CanPwn = NoLists
    /\ PwnableBy = NoLists
    /\ pwnlinks = 0
    /\ ran = NoLists

\* ------------------------------------------------------------ the load

\* rawObject.DecodeMsg(d) at record pos: the error it returns, and the record.
\* A record cut off between two fields fails on the next field's first byte
\* with io.EOF; one cut off inside a value fails with io.ErrUnexpectedEOF.
DecodeMsg(file, at) ==
    IF at <= Len(file.recs) THEN [err |-> "nil", dn |-> file.recs[at]]
    ELSE IF file.tail = "cutvalue" THEN [err |-> "ErrUnexpectedEOF", dn |-> NoObject]
    ELSE [err |-> "EOF", dn |-> NoObject]

\* The load loop with every decode error taken for the end of the stream.
LoadStep_AnyErrorEnds ==
    /\ pc = "load"
    /\ LET d == DecodeMsg(input, pos) IN
        IF d.err = "nil"
        THEN /\ AllObjects' = Add(AllObjects, d.dn, RawObjects[d.dn])
             /\ pos' = pos + 1
             /\ pc' = pc
        ELSE /\ pc' = "inject"
             /\ UNCHANGED << AllObjects, pos >>
    /\ UNCHANGED << input, everyone, authenticatedusers, array, todo, memberof,
                    members, PwnAnalyzers, object, ai, results, CanPwn,
                    PwnableBy, pwnlinks, ran >>

\* One turn of the load loop: a decoded record is added, io.EOF ends the loop,
\* any other error is fatal.
LoadStep ==
    /\ pc = "load"
    /\ LET d == DecodeMsg(input, pos) IN
        IF d.err = "nil"
        THEN /\ AllObjects' = Add(AllObjects, d.dn, RawObjects[d.dn])
             /\ pos' = pos + 1
             /\ pc' = pc
        ELSE IF d.err = "EOF"
        THEN /\ pc' = "inject"
             /\ UNCHANGED << AllObjects, pos >>
        ELSE /\ pc' = "fatal"
             /\ UNCHANGED << AllObjects, pos >>
    /\ UNCHANGED << input, everyone, authenticatedusers, array, todo, memberof,
                    members, PwnAnalyzers, object, ai, results, CanPwn,
                    PwnableBy, pwnlinks, ran >>

\* The known SIDs that are missing are added.
RECURSIVE AddKnown(_, _)
AddKnown(store, sids) ==
    IF sids = {} THEN store
    ELSE LET sid == CHOOSE s \in sids : TRUE
             next == IF FindSID(store, sid) = NoObject
                     THEN Add(store, KnownDN(sid), KnownObject(sid))
                     ELSE store
         IN AddKnown(next, sids \ {sid})

InjectKnownSIDs ==
    /\ pc = "inject"
    /\ AllObjects' = AddKnown(AllObjects, DOMAIN knownsids)
    /\ pc' = "prepare"
    /\ UNCHANGED << input, pos, everyone, authenticatedusers, array, todo,
                    memberof, members, PwnAnalyzers, object, ai, results,
                    CanPwn, PwnableBy, pwnlinks, ran >>

\* ------------------------------------------------------------ pre-processing

Range(seq) == { seq[i] : i \in DOMAIN seq }

\* MemberOf(): the groups reached through the membership attribute, each once
\* (a visited group is not entered again), groups missing from the store left
\* out.
RECURSIVE MemberOfChain(_, _, _)
MemberOfChain(store, pending, found) ==
    IF pending = << >> THEN found
    ELSE LET g == Head(pending) IN
         IF g \notin DOMAIN store.dnmap \/ g \in Range(found)
         THEN MemberOfChain(store, Tail(pending), found)
         ELSE MemberOfChain(store, store.dnmap[g].memberOf \o Tail(pending),
                            Append(found, g))

MemberOf(store, dn) == MemberOfChain(store, store.dnmap[dn].memberOf, << >>)

\* group.imamemberofyou(member) for every group of a list.
RECURSIVE imamemberofyou(_, _, _)
imamemberofyou(mem, groups, member) ==
    IF groups = << >> THEN mem
    ELSE imamemberofyou([mem EXCEPT ![Head(groups)] = Append(@, member)],
                        Tail(groups), member)

\* The special handling without the managed service accounts.
ImplicitMember_NoMSA(obj) ==
    \/ Type(obj) = ObjectTypeUser
    \/ Type(obj) = ObjectTypeComputer

\* The types that are members of Everyone and Authenticated Users.
ImplicitMember(obj) ==
    \/ Type(obj) = ObjectTypeUser
    \/ Type(obj) = ObjectTypeComputer
    \/ Type(obj) = ObjectTypeManagedServiceAccount

\* uuid.FromBytes succeeds on the schemaIDGUID.
ValidGUID(guid) == guid \in {GUID1, GUID2}

\* The object is an attributeSchema named ms-Mcs-AdmPwd with a usable GUID.
RegistersLAPS(obj) ==
    /\ obj.objectClass = "attributeSchema"
    /\ ValidGUID(obj.schemaIDGUID)
    /\ obj.name = "ms-Mcs-AdmPwd"

\* Everyone and Authenticated Users are looked up (or created) and the pass
\* takes its snapshot of the store.
BeginProcess ==
    /\ pc = "prepare"
    /\ LET e == FindOrAddSID(AllObjects, everyonesid)
           a == FindOrAddSID(e.store, authenticateduserssid)
       IN /\ everyone' = e.obj
          /\ authenticatedusers' = a.obj
          /\ AllObjects' = a.store
          /\ array' = AsArray(a.store)
          /\ todo' = AsArray(a.store)
    /\ pc' = "process"
    /\ UNCHANGED << input, pos, memberof, members, PwnAnalyzers, object, ai,
                    results, CanPwn, PwnableBy, pwnlinks, ran >>

\* One turn of the pre-processing loop, on any object not yet visited.
ProcessObject ==
    /\ pc = "process"
    /\ \E o \in todo :
        LET obj == AllObjects.dnmap[o]
            chain == MemberOf(AllObjects, o)
            extra == IF ImplicitMember(obj)
                     THEN << everyone, authenticatedusers >> ELSE << >>
        IN /\ memberof' = [memberof EXCEPT ![o] = chain \o extra]
           /\ members' = imamemberofyou(members, chain \o extra, o)
           /\ PwnAnalyzers' =
                IF RegistersLAPS(obj)
                THEN Append(PwnAnalyzers, [Method |-> PwnReadLAPSPassword,
                                            objectGUID |-> obj.schemaIDGUID])
                ELSE PwnAnalyzers
           /\ todo' = todo \ {o}
    /\ UNCHANGED << input, pc, pos, AllObjects, everyone, authenticatedusers,
                    array, object, ai, results, CanPwn, PwnableBy, pwnlinks, ran >>

\* The evaluation loop started while the pre-processing loop still had objects
\* to classify.
BeginEval_Early ==
    /\ pc = "process"
    /\ array' = AsArray(AllObjects)
    /\ todo' = AsArray(AllObjects)
    /\ pwnlinks' = 0
    /\ pc' = "eval"
    /\ UNCHANGED << input, pos, AllObjects, everyone, authenticatedusers,
                    memberof, members, PwnAnalyzers, object, ai, results,
                    CanPwn, PwnableBy, ran >>

\* The pre-processing loop is over; the evaluation loop takes its snapshot.
BeginEval ==
    /\ pc = "process"
    /\ todo = {}
    /\ array' = AsArray(AllObjects)
    /\ todo' = AsArray(AllObjects)
    /\ pwnlinks' = 0
    /\ pc' = "eval"
    /\ UNCHANGED << input, pos, AllObjects, everyone, authenticatedusers,
                    memberof, members, PwnAnalyzers, object, ai, results,
                    CanPwn, PwnableBy, ran >>

\* ------------------------------------------------------------ the LAPS analyzer

\* SecurityDescriptor(): the decoded descriptor, or an error.
SecurityDescriptor(obj) ==
    [err |-> ~obj.sd.valid, DACL |-> obj.sd.entries]

\* The test of an ACE without the rights mask.
MatchingACE_AnyMask(acl, objectGUID) ==
    /\ acl.Type = ACETYPE_ACCESS_ALLOWED_OBJECT
    /\ acl.ObjectType = objectGUID

\* The ACE grants reading the watched attribute.
MatchingACE(acl, objectGUID) ==
    /\ acl.Type = ACETYPE_ACCESS_ALLOWED_OBJECT
    /\ RIGHT_DS_READ_PROPERTY \in acl.Mask
    /\ acl.ObjectType = objectGUID

\* The loop over sd.DACL.Entries: [store, results].
RECURSIVE ScanDACL(_, _, _, _)

\* The analyzer without the test of the decoder's error.
LAPSAnalyzer_IgnoresError(objectGUID, store, o) ==
    LET obj == store.dnmap[o]
        sd == SecurityDescriptor(obj)
    IN IF Type(obj) # ObjectTypeComputer
       THEN [store |-> store, results |-> << >>]
       ELSE IF ~obj.laps
       THEN [store |-> store, results |-> << >>]
       ELSE ScanDACL(sd.DACL, objectGUID, store, << >>)

ScanDACL(entries, objectGUID, store, found) ==
    IF entries = << >> THEN [store |-> store, results |-> found]
    ELSE IF MatchingACE(Head(entries), objectGUID)
    THEN LET r == FindOrAddSID(store, Head(entries).SID)
         IN ScanDACL(Tail(entries), objectGUID, r.store, Append(found, r.obj))
    ELSE ScanDACL(Tail(entries), objectGUID, store, found)

\* The ObjectAnalyzer closure registered for objectGUID, applied to object o.
LAPSAnalyzer(objectGUID, store, o) ==
    LET obj == store.dnmap[o]
        sd == SecurityDescriptor(obj)
    IN IF Type(obj) # ObjectTypeComputer
       THEN [store |-> store, results |-> << >>]
       ELSE IF ~obj.laps
       THEN [store |-> store, results |-> << >>]
       ELSE IF sd.err
       THEN [store |-> store, results |-> << >>]
       ELSE ScanDACL(sd.DACL, objectGUID, store, << >>)

\* ------------------------------------------------------------ the evaluation

\* The self-own test without the comparison of the SIDs.
SelfOwn_PointerOnly(store, pwnobject, o) == pwnobject = o

SelfOwn(store, pwnobject, o) ==
    pwnobject = o \/ SID(store, pwnobject) = SID(store, o)

\* The exempt test without the System SID.
Exempt_NoSystem(store, pwnobject) ==
    \/ SID(store, pwnobject) = SelfSID
    \/ SID(store, pwnobject) = CreatorOwnerSID

Exempt(store, pwnobject) ==
    \/ SID(store, pwnobject) = SelfSID
    \/ SID(store, pwnobject) = CreatorOwnerSID
    \/ SID(store, pwnobject) = SystemSID

PwnInfo(method, target) == [Method |-> method, Target |-> target]

\* The CanPwn entry appended to the analyzed object instead.
AppendCanPwn_Swapped(lists, pwnobject, method, o) ==
    [lists EXCEPT ![o] = Append(@, PwnInfo(method, pwnobject))]

\* pwnobject.CanPwn = append(pwnobject.CanPwn, PwnInfo{Method, Target: object})
AppendCanPwn(lists, pwnobject, method, o) ==
    [lists EXCEPT ![pwnobject] = Append(@, PwnInfo(method, o))]

\* The PwnableBy entry left out.
AppendPwnableBy_Dropped(lists, pwnobject, method, o) == lists

\* object.PwnableBy = append(object.PwnableBy, PwnInfo{Method, Target: pwnobject})
AppendPwnableBy(lists, pwnobject, method, o) ==
    [lists EXCEPT ![o] = Append(@, PwnInfo(method, pwnobject))]

\* The innermost loop left (break) instead of continued on a skipped counterpart.
Counterpart_BreaksOnSkip ==
    /\ pc = "counterparts"
    /\ results # << >>
    /\ LET pwnobject == Head(results)
           method == PwnAnalyzers[ai].Method
       IN IF SelfOwn(AllObjects, pwnobject, object) \/ Exempt(AllObjects, pwnobject)
          THEN /\ results' = << >>
               /\ UNCHANGED << CanPwn, PwnableBy, pwnlinks >>
          ELSE /\ CanPwn' = AppendCanPwn(CanPwn, pwnobject, method, object)
               /\ PwnableBy' = AppendPwnableBy(PwnableBy, pwnobject, method, object)
               /\ pwnlinks' = pwnlinks + 1
               /\ results' = Tail(results)
    /\ UNCHANGED << input, pc, pos, AllObjects, everyone, authenticatedusers,
                    array, todo, memberof, members, PwnAnalyzers, object, ai, ran >>

\* The analyzer loop stepping over every other analyzer.
NextAnalyzer_Skips ==
    /\ pc = "counterparts"
    /\ results = << >>
    /\ ai' = ai + 2
    /\ pc' = "analyzer"
    /\ UNCHANGED << input, pos, AllObjects, everyone, authenticatedusers, array,
                    todo, memberof, members, PwnAnalyzers, object, results,
                    CanPwn, PwnableBy, pwnlinks, ran >>

\* The outer loop takes the next object of its snapshot.
NextObject ==
    /\ pc = "eval"
    /\ \E o \in todo :
        /\ object' = o
        /\ todo' = todo \ {o}
    /\ ai' = 1
    /\ pc' = "analyzer"
    /\ UNCHANGED << input, pos, AllObjects, everyone, authenticatedusers, array,
                    memberof, members, PwnAnalyzers, results, CanPwn, PwnableBy,
                    pwnlinks, ran >>

\* analyzer.ObjectAnalyzer(object) is called.
CallAnalyzer ==
    /\ pc = "analyzer"
    /\ ai <= Len(PwnAnalyzers)
    /\ LET r == LAPSAnalyzer(PwnAnalyzers[ai].objectGUID, AllObjects, object)
       IN /\ AllObjects' = r.store
          /\ results' = r.results
    /\ ran' = [ran EXCEPT ![object] = Append(@, ai)]
    /\ pc' = "counterparts"
    /\ UNCHANGED << input, pos, everyone, authenticatedusers, array, todo,
                    memberof, members, PwnAnalyzers, object, ai, CanPwn,
                    PwnableBy, pwnlinks >>

\* One turn of the innermost loop, on the next emitted counterpart.
Counterpart ==
    /\ pc = "counterparts"
    /\ results # << >>
    /\ LET pwnobject == Head(results)
           method == PwnAnalyzers[ai].Method
       IN IF SelfOwn(AllObjects, pwnobject, object) \/ Exempt(AllObjects, pwnobject)
          THEN UNCHANGED << CanPwn, PwnableBy, pwnlinks >>
          ELSE /\ CanPwn' = AppendCanPwn(CanPwn, pwnobject, method, object)
               /\ PwnableBy' = AppendPwnableBy(PwnableBy, pwnobject, method, object)
               /\ pwnlinks' = pwnlinks + 1
    /\ results' = Tail(results)
    /\ UNCHANGED << input, pc, pos, AllObjects, everyone, authenticatedusers,
                    array, todo, memberof, members, PwnAnalyzers, object, ai, ran >>

\* The analyzer's counterparts are done; the next analyzer is up.
NextAnalyzer ==
    /\ pc = "counterparts"
    /\ results = << >>
    /\ ai' = ai + 1
    /\ pc' = "analyzer"
    /\ UNCHANGED << input, pos, AllObjects, everyone, authenticatedusers, array,
                    todo, memberof, members, PwnAnalyzers, object, results,
                    CanPwn, PwnableBy, pwnlinks, ran >>

\* Every analyzer has been run on the object.
ObjectDone ==
    /\ pc = "analyzer"
    /\ ai > Len(PwnAnalyzers)
    /\ object' = NoObject
    /\ ai' = 0
    /\ pc' = "eval"
    /\ UNCHANGED << input, pos, AllObjects, everyone, authenticatedusers, array,
                    todo, memberof, members, PwnAnalyzers, results, CanPwn,
                    PwnableBy, pwnlinks, ran >>

\* The evaluation loop is over.
EvalDone ==
    /\ pc = "eval"
    /\ todo = {}
    /\ pc' = "done"
    /\ UNCHANGED << input, pos, AllObjects, everyone, authenticatedusers, array,
                    todo, memberof, members, PwnAnalyzers, object, ai, results,
                    CanPwn, PwnableBy, pwnlinks, ran >>

Next ==
    \/ LoadStep
    \/ InjectKnownSIDs
    \/ BeginProcess
    \/ ProcessObject
    \/ BeginEval
    \/ NextObject
    \/ CallAnalyzer
    \/ Counterpart
    \/ NextAnalyzer
    \/ ObjectDone
    \/ EvalDone

Spec == Init /\ [][Next]_vars

\* ------------------------------------------------------------ the analyzer alone

\* The store the analyzer is applied in: one principal, and the object under
\* analysis with any class, any expiration attribute and any descriptor.
SubjectDN == "CN=PC"

ACESIDs == {"S-1-5-21-500", "S-1-5-21-777"}

ACEs ==
    [Type : {ACETYPE_ACCESS_ALLOWED_OBJECT, ACETYPE_ACCESS_ALLOWED,
             ACETYPE_ACCESS_DENIED_OBJECT},
     Mask : {{RIGHT_DS_READ_PROPERTY}, {RIGHT_DS_WRITE_PROPERTY},
             {RIGHT_DS_READ_PROPERTY, RIGHT_DS_WRITE_PROPERTY}},
     ObjectType : {GUID1, GUID2},
     SID : ACESIDs]

RECURSIVE SeqsUpTo(_, _)
SeqsUpTo(S, n) ==
    IF n = 0 THEN {<< >>}
    ELSE LET shorter == SeqsUpTo(S, n - 1)
         IN shorter \cup { Append(q, x) : q \in shorter, x \in S }

BaseStore == Add(EmptyStore, "CN=Alice", RawObjects["CN=Alice"])

InitLAPS ==
    /\ input = [recs |-> << >>, tail |-> "eof"]
    /\ pc = "analyzer"
    /\ pos = 1
    /\ \E class \in {"computer", "user", "group"}, laps \in BOOLEAN,
          valid \in BOOLEAN, dacl \in SeqsUpTo(ACEs, MaxAces) :
          AllObjects = Add(BaseStore, SubjectDN,
                           Object(class, "PC", "S-1-5-21-1001", NoSID, laps,
                                  [valid |-> valid, entries |-> dacl], << >>))
    /\ everyone = NoObject
    /\ authenticatedusers = NoObject
    /\ array = {SubjectDN}
    /\ todo = {}
    /\ memberof = NoLists
    /\ members = NoLists
    /\ \E guid \in {GUID1, GUID2} :
          PwnAnalyzers = << [Method |-> PwnReadLAPSPassword, objectGUID |-> guid] >>
    /\ object = SubjectDN
    /\ ai = 1
    /\ results = << >>
    /\ CanPwn = NoLists
    /\ PwnableBy = NoLists
    /\ pwnlinks = 0
    /\ ran = NoLists

SpecLAPS == InitLAPS /\ [][CallAnalyzer]_vars

\* ------------------------------------------------------------ properties

Stored == DOMAIN AllObjects.dnmap

ExemptSIDs == {SelfSID, CreatorOwnerSID, SystemSID}

\* How often the entry (method, target) is in a list.
Count(list, method, target) ==
    Cardinality({ i \in DOMAIN list :
                    list[i].Method = method /\ list[i].Target = target })

\* The counterparts of the running analyzer call, and those already handled.
Emitted ==
    LAPSAnalyzer(PwnAnalyzers[ai].objectGUID, AllObjects, object).results

Handled == SubSeq(Emitted, 1, Len(Emitted) - Len(results))

\* A step of the innermost loop: one emitted counterpart is consumed.
CounterpartStep ==
    pc = "counterparts" /\ results # << >> /\ results' = Tail(results)

\* That counterpart is skipped by neither test of the loop.
Recorded ==
    /\ ~SelfOwn(AllObjects, Head(results), object)
    /\ ~Exempt(AllObjects, Head(results))

\* X.CanPwn holds (m, T) exactly as often as T.PwnableBy holds (m, X).
C1_Symmetric ==
    \A x \in AllDNs :
        /\ \A i \in DOMAIN CanPwn[x] :
            LET e == CanPwn[x][i] IN
            Count(CanPwn[x], e.Method, e.Target)
                = Count(PwnableBy[e.Target], e.Method, x)
        /\ \A i \in DOMAIN PwnableBy[x] :
            LET e == PwnableBy[x][i] IN
            Count(PwnableBy[x], e.Method, e.Target)
                = Count(CanPwn[e.Target], e.Method, x)

\* C1 (edge symmetry): in every state, X.CanPwn holds (m, T) exactly as often as
\* T.PwnableBy holds (m, X), so one has the entry if and only if the other has;
\* and no step extends one of the two families of lists without the other.
C1_EdgeSymmetry ==
    [] C1_Symmetric /\ [][(CanPwn' # CanPwn) <=> (PwnableBy' # PwnableBy)]_vars

\* An edge is recorded, once in either list.
C1_Witness ==
    \E x \in Stored, t \in Stored :
        /\ Count(CanPwn[x], PwnReadLAPSPassword, t) = 1
        /\ Count(PwnableBy[t], PwnReadLAPSPassword, x) = 1

\* No entry of a list of x has x, or an object of the SID of x, as its Target.
C2_NoSelfEntry ==
    \A x \in Stored : \A i \in DOMAIN CanPwn[x] \cup DOMAIN PwnableBy[x] :
        \A list \in {CanPwn[x], PwnableBy[x]} :
            i \in DOMAIN list =>
                /\ list[i].Target # x
                /\ SID(AllObjects, list[i].Target) # SID(AllObjects, x)

\* C2 (no self-own edge): no entry of a CanPwn or PwnableBy list links an object
\* to itself or to an object of the same SID, and the step that takes such a
\* counterpart leaves every edge list and the link counter as they were.
C2_NoSelfOwn ==
    /\ [] C2_NoSelfEntry
    /\ [][CounterpartStep /\ SelfOwn(AllObjects, Head(results), object)
            => UNCHANGED << CanPwn, PwnableBy, pwnlinks >>]_vars

\* A counterpart that is another object of the analyzed object's SID has been
\* taken and skipped.
C2_Witness ==
    /\ pc = "counterparts"
    /\ \E i \in DOMAIN Handled :
        /\ Handled[i] # object
        /\ SID(AllObjects, Handled[i]) = SID(AllObjects, object)

\* C3 as stated: no entry of any CanPwn list and none of any PwnableBy list has
\* a Target whose SID is the Self, Creator-Owner or System SID.
C3_AsStated ==
    \A x \in Stored : \A list \in {CanPwn[x], PwnableBy[x]} :
        \A i \in DOMAIN list :
            SID(AllObjects, list[i].Target) \notin ExemptSIDs

\* C3 amended: the exempt principals are never the controlling end of an edge:
\* no PwnableBy entry has a Target of those SIDs and no object of those SIDs has
\* a CanPwn entry.  (An analyzed object of such a SID is still recorded as the
\* Target of the CanPwn entries of its counterparts.)
C3_ExemptNeverSource ==
    /\ \A x \in Stored : \A i \in DOMAIN PwnableBy[x] :
           SID(AllObjects, PwnableBy[x][i].Target) \notin ExemptSIDs
    /\ \A x \in Stored :
           SID(AllObjects, x) \in ExemptSIDs => CanPwn[x] = << >>

\* A counterpart of an exempt SID, not a self-own, has been taken and skipped.
C3_Witness ==
    /\ pc = "counterparts"
    /\ \E i \in DOMAIN Handled :
        /\ Exempt(AllObjects, Handled[i])
        /\ ~SelfOwn(AllObjects, Handled[i], object)

\* C8 as stated: a counterpart that is not skipped gets (method, counterpart)
\* appended to the analyzed object's CanPwn and (method, analyzed object)
\* appended to the counterpart's PwnableBy.
C8_AsStated ==
    [][CounterpartStep /\ Recorded =>
        LET target == Head(results)
            method == PwnAnalyzers[ai].Method
        IN /\ CanPwn'[object] = Append(CanPwn[object], PwnInfo(method, target))
           /\ PwnableBy'[target] =
                Append(PwnableBy[target], PwnInfo(method, object))]_vars

\* C8 amended: a counterpart that is not skipped gets (method, analyzed object)
\* appended to its own CanPwn, and (method, counterpart) is appended to the
\* analyzed object's PwnableBy; no other list changes and the counter grows by
\* one.
C8_Direction ==
    [][CounterpartStep /\ Recorded =>
        LET target == Head(results)
            method == PwnAnalyzers[ai].Method
        IN /\ CanPwn' = [CanPwn EXCEPT
                            ![target] = Append(@, PwnInfo(method, object))]
           /\ PwnableBy' = [PwnableBy EXCEPT
                            ![object] = Append(@, PwnInfo(method, target))]
           /\ pwnlinks' = pwnlinks + 1]_vars

\* The analyzed computer is PwnableBy its counterpart, which CanPwn it.
C8_Witness ==
    /\ pc = "counterparts"
    /\ \E i \in DOMAIN Handled :
        /\ ~SelfOwn(AllObjects, Handled[i], object)
        /\ ~Exempt(AllObjects, Handled[i])
        /\ Count(CanPwn[Handled[i]], PwnAnalyzers[ai].Method, object) > 0
        /\ Count(PwnableBy[object], PwnAnalyzers[ai].Method, Handled[i]) > 0
        /\ CanPwn[object] = << >>

\* The object's security descriptor does not decode.
Undecodable(o) == SecurityDescriptor(AllObjects.dnmap[o]).err

\* No edge has an object with such a descriptor as its analyzed end.
C4_NoEdgeFor ==
    \A o \in Stored : Undecodable(o) =>
        /\ PwnableBy[o] = << >>
        /\ \A x \in Stored : \A i \in DOMAIN CanPwn[x] : CanPwn[x][i].Target # o

\* The loop has a next step at such an object, and ends with every analyzer run
\* on every object of its snapshot.
C4_PassGoesOn ==
    /\ (pc \in {"analyzer", "counterparts"} /\ Undecodable(object))
            => ENABLED Next
    /\ pc = "done" => \A o \in array : Len(ran[o]) = Len(PwnAnalyzers)

\* C4 (a descriptor that does not decode): an object whose security descriptor
\* fails to decode is never the analyzed end of an edge; the analyzer call on it
\* returns no counterpart and changes neither the store nor a list, the loop
\* goes on from it, and at the end every analyzer has been run on every object
\* of the pass.
C4_DecodeFailure ==
    /\ [] (C4_NoEdgeFor /\ C4_PassGoesOn)
    /\ [][(pc = "analyzer" /\ pc' = "counterparts" /\ Undecodable(object))
            => /\ results' = << >>
               /\ UNCHANGED << AllObjects, CanPwn, PwnableBy, pwnlinks >>]_vars

\* The pass is over, a LAPS computer with a truncated descriptor was analyzed,
\* and an edge of another object was recorded.
C4_Witness ==
    /\ pc = "done"
    /\ \E o \in array :
        /\ Undecodable(o)
        /\ AllObjects.dnmap[o].objectClass = "computer"
        /\ AllObjects.dnmap[o].laps
        /\ ran[o] # << >>
    /\ pwnlinks > 0

\* The places of the DACL entries that grant reading the attribute of that GUID.
C5_Matches(dacl, guid) ==
    { i \in DOMAIN dacl :
        /\ dacl[i].Type = ACETYPE_ACCESS_ALLOWED_OBJECT
        /\ RIGHT_DS_READ_PROPERTY \in dacl[i].Mask
        /\ dacl[i].ObjectType = guid }

\* object(S): the object that was registered for the SID, or its placeholder.
C5_Principal(sid) ==
    IF FindSID(BaseStore, sid) # NoObject THEN FindSID(BaseStore, sid)
    ELSE PlaceholderDN(sid)

\* C5 (the LAPS analyzer's result): for a computer with the expiration
\* attribute and a descriptor that decodes, the analyzer watching GUID G
\* returns one counterpart per DACL entry that is allow-object, carries the
\* read-property right and has object type G, namely the object registered for
\* the entry's SID: the one that was there, or a placeholder of that SID created
\* by the call, and nothing else is created.  For any other object the result
\* is empty and the store is left alone.
C5_LAPSResult ==
    pc = "counterparts" =>
        LET obj == AllObjects.dnmap[SubjectDN]
            dacl == obj.sd.entries
            match == C5_Matches(dacl, PwnAnalyzers[1].objectGUID)
            sids == { dacl[i].SID : i \in match }
        IN IF obj.objectClass = "computer" /\ obj.laps /\ obj.sd.valid
           THEN /\ Len(results) = Cardinality(match)
                /\ \A s \in ACESIDs :
                     Cardinality({ k \in DOMAIN results :
                                     results[k] = C5_Principal(s) })
                       = Cardinality({ i \in match : dacl[i].SID = s })
                /\ \A s \in sids :
                     /\ FindSID(AllObjects, s) = C5_Principal(s)
                     /\ SID(AllObjects, C5_Principal(s)) = s
                /\ Stored = DOMAIN BaseStore.dnmap \cup {SubjectDN}
                                \cup { C5_Principal(s) : s \in sids }
                /\ (Cardinality(match) = 1 =>
                      \E i \in match : results = << C5_Principal(dacl[i].SID) >>)
           ELSE /\ results = << >>
                /\ Stored = DOMAIN BaseStore.dnmap \cup {SubjectDN}

\* One matching entry beside one that does not match: the single counterpart is
\* the placeholder created for the entry's SID.
C5_Witness ==
    /\ pc = "counterparts"
    /\ Len(AllObjects.dnmap[SubjectDN].sd.entries) = 2
    /\ results = << PlaceholderDN("S-1-5-21-777") >>
    /\ PlaceholderDN("S-1-5-21-777") \in Stored

\* C6 as stated: a cache file that ends in a short record is loaded like one
\* that ends cleanly; the program never ends in the fatal decode error.
C6_AsStated ==
    input.tail \in {"cutfield", "cutvalue"} => pc # "fatal"

\* The first n records of the file.
C6_Decoded(n) == { input.recs[i] : i \in 1 .. n }

\* The last of them that carries the SID.
C6_Last(n, sid) ==
    LET at == { i \in 1 .. n : RawObjects[input.recs[i]].sid = sid }
    IN input.recs[CHOOSE i \in at : \A j \in at : j <= i]

\* The store holds them, indexed by SID as a load in file order leaves it.
C6_StoreHolds(n) ==
    /\ \A dn \in C6_Decoded(n) :
          dn \in Stored /\ AllObjects.dnmap[dn] = RawObjects[dn]
    /\ \A dn \in C6_Decoded(n) : RawObjects[dn].sid # NoSID =>
          FindSID(AllObjects, RawObjects[dn].sid) = C6_Last(n, RawObjects[dn].sid)

\* C6 amended: the records are added in stream order; the loop ends normally,
\* with every complete record in the store, when the decoder reports io.EOF,
\* which is what it reports at the end of the stream and for a final record
\* cut between two fields; a final record cut inside a value makes the decoder
\* report another error, and the program ends fatally.
C6_Load ==
    /\ pc = "load" =>
         /\ pos <= Len(input.recs) + 1
         /\ Stored = C6_Decoded(pos - 1)
         /\ C6_StoreHolds(pos - 1)
    /\ pc = "fatal" =>
         /\ input.tail = "cutvalue"
         /\ pos = Len(input.recs) + 1
         /\ Stored = C6_Decoded(Len(input.recs))
    /\ pc \notin {"load", "fatal"} =>
         /\ input.tail \in {"eof", "cutfield"}
         /\ pos = Len(input.recs) + 1
         /\ C6_StoreHolds(Len(input.recs))

\* A file of three records and a record cut between two fields is loaded, two
\* of the records share a SID, and the program is past the load.
C6_Witness ==
    /\ pc = "inject"
    /\ input.tail = "cutfield"
    /\ Len(input.recs) = MaxRecords
    /\ Stored = C6_Decoded(MaxRecords)
    /\ \E i \in 1 .. MaxRecords, j \in 1 .. MaxRecords :
        i < j /\ SID(AllObjects, input.recs[i]) = SID(AllObjects, input.recs[j])
              /\ SID(AllObjects, input.recs[i]) # NoSID

\* The objects the pre-processing loop has visited.
C7_Visited ==
    IF pc = "process" THEN array \ todo
    ELSE IF pc \in {"eval", "analyzer", "counterparts", "done"} THEN array
    ELSE {}

\* C7 (Everyone and Authenticated Users): once the pre-processing loop has
\* visited an object of type User, Computer or ManagedServiceAccount, both
\* groups are in its memberof and it is among the members of both; an object of
\* another type has just the groups of its membership chain.
C7_ImplicitGroups ==
    \A o \in C7_Visited :
        IF Type(AllObjects.dnmap[o]) \in
              {ObjectTypeUser, ObjectTypeComputer, ObjectTypeManagedServiceAccount}
        THEN /\ SID(AllObjects, everyone) = everyonesid
             /\ SID(AllObjects, authenticatedusers) = authenticateduserssid
             /\ {everyone, authenticatedusers} \subseteq Range(memberof[o])
             /\ o \in Range(members[everyone])
             /\ o \in Range(members[authenticatedusers])
        ELSE /\ memberof[o] = MemberOf(AllObjects, o)
             /\ \A g \in {everyone, authenticatedusers} :
                  o \in Range(members[g]) => g \in Range(MemberOf(AllObjects, o))

\* The pass is over a store with a managed service account, a user that is in
\* a group by attribute, and that group.
C7_Witness ==
    /\ pc = "eval"
    /\ \E o \in array :
        Type(AllObjects.dnmap[o]) = ObjectTypeManagedServiceAccount
    /\ \E u \in array, g \in array :
        /\ Type(AllObjects.dnmap[u]) = ObjectTypeUser
        /\ Type(AllObjects.dnmap[g]) = ObjectTypeGroup
        /\ g \in Range(memberof[u])
        /\ memberof[g] = << g >>

\* The analyzers' places in the registry, in order.
AllAnalyzers == [i \in 1 .. Len(PwnAnalyzers) |-> i]

\* C9 as stated: when the pass is over, every analyzer has been run exactly
\* once, in registry order, on every object the store holds.
C9_AsStated ==
    pc = "done" => \A o \in Stored : ran[o] = AllAnalyzers

\* C9 amended: when the pass is over, every analyzer has been run exactly once,
\* in registry order, on every object that was in the store when the pass
\* began; a placeholder that an analyzer added to the store during the pass has
\* had no analyzer run on it.
C9_Coverage ==
    pc = "done" =>
        /\ \A o \in array : ran[o] = AllAnalyzers
        /\ \A o \in Stored \ array : ran[o] = << >>

\* The pass is over, two analyzers are registered, and a placeholder was added
\* while it ran.
C9_Witness ==
    /\ pc = "done"
    /\ Len(PwnAnalyzers) >= 2
    /\ Stored \ array # {}

\* The edges the input stands for, written from the cache file alone: for each
\* LAPS computer with a descriptor that decodes and each of its entries that
\* matches a registered GUID, the owner of the entry's SID can read its
\* password, unless the owner is the computer, has its SID or is exempt.
C10_Records == Range(input.recs)

C10_Owner(sid) ==
    LET at == { i \in DOMAIN input.recs : RawObjects[input.recs[i]].sid = sid }
    IN IF at # {} THEN input.recs[CHOOSE i \in at : \A j \in at : j <= i]
       ELSE IF sid \in DOMAIN knownsids THEN KnownDN(sid)
       ELSE PlaceholderDN(sid)

C10_Watched ==
    { RawObjects[r].schemaIDGUID :
        r \in { q \in C10_Records :
                  /\ RawObjects[q].objectClass = "attributeSchema"
                  /\ RawObjects[q].name = "ms-Mcs-AdmPwd"
                  /\ RawObjects[q].schemaIDGUID \in {GUID1, GUID2} } }

C10_EdgesOf(o) ==
    LET obj == RawObjects[o]
        granted == { a \in Range(obj.sd.entries) :
                       /\ a.Type = ACETYPE_ACCESS_ALLOWED_OBJECT
                       /\ RIGHT_DS_READ_PROPERTY \in a.Mask
                       /\ a.ObjectType \in C10_Watched
                       /\ C10_Owner(a.SID) # o
                       /\ a.SID # obj.sid
                       /\ a.SID \notin ExemptSIDs }
    IN IF obj.objectClass = "computer" /\ obj.laps /\ obj.sd.valid
       THEN { << C10_Owner(a.SID), PwnReadLAPSPassword, o >> : a \in granted }
       ELSE {}

C10_Expected == UNION { C10_EdgesOf(o) : o \in C10_Records }

\* The recorded edges (source, method, target), read off either family of lists.
CanPwnEdges ==
    UNION { { << x, e.Method, e.Target >> : e \in Range(CanPwn[x]) } : x \in AllDNs }

PwnableByEdges ==
    UNION { { << e.Target, e.Method, t >> : e \in Range(PwnableBy[t]) } : t \in AllDNs }

\* C10 (order independence): whatever order the objects were enumerated in by
\* the two passes, and so whatever order the analyzers were registered in, the
\* set of edges recorded when the pass ends is the one the input stands for.
C10_OrderIndependent ==
    pc = "done" => CanPwnEdges = C10_Expected /\ PwnableByEdges = C10_Expected

\* Two computers were analyzed in the order opposite to the file's, and their
\* common counterpart is a placeholder created during the pass.
C10_Witness ==
    /\ pc = "done"
    /\ \E s \in AllSIDs :
        /\ PlaceholderDN(s) \in Stored \ array
        /\ CanPwn[PlaceholderDN(s)] =
             << PwnInfo(PwnReadLAPSPassword, "CN=PC3"),
                PwnInfo(PwnReadLAPSPassword, "CN=PC1") >>

\* No (method, counterpart) pair stands at two positions of the list.
C11_NoRepeat(list) ==
    \A i, j \in DOMAIN list :
        (list[i].Method = list[j].Method /\ list[i].Target = list[j].Target)
            => i = j

\* C11 (the lists are sets): after the evaluation pass no object's CanPwn list
\* and no object's PwnableBy list holds the same (method, counterpart) pair more
\* than once, whatever was loaded.
C11_AsStated ==
    pc = "done" =>
        \A x \in AllDNs : C11_NoRepeat(CanPwn[x]) /\ C11_NoRepeat(PwnableBy[x])

\* The evaluation phase: from the snapshot of the evaluation loop to its end.
C12_EvalPhase == pc \in {"eval", "analyzer", "counterparts", "done"}

\* Every object of the load has been through the pre-processing pass: each
\* ms-Mcs-AdmPwd schema object has its analyzer in the registry, and each user,
\* computer and managed service account has its implicit groups.
C12_AllClassified ==
    /\ Len(PwnAnalyzers) =
         Cardinality({ o \in array : RegistersLAPS(AllObjects.dnmap[o]) })
    /\ \A o \in array :
         ImplicitMember(AllObjects.dnmap[o]) =>
             {everyone, authenticatedusers} \subseteq Range(memberof[o])

\* C12 (phase ordering): the registry changes only in the pre-processing pass
\* and only while no analyzer has run yet; from the start of the evaluation
\* phase to its end it is never modified; an analyzer runs only in the
\* evaluation phase, and in that phase no object of the load is unclassified.
C12_PhaseOrder ==
    /\ [](C12_EvalPhase \/ ran # NoLists => C12_AllClassified)
    /\ [](ran # NoLists => C12_EvalPhase)
    /\ [][PwnAnalyzers' # PwnAnalyzers =>
             pc = "process" /\ ran = NoLists /\ ran' = NoLists]_vars
    /\ [][C12_EvalPhase => PwnAnalyzers' = PwnAnalyzers /\ C12_EvalPhase']_vars
    /\ [][ran' # ran => pc = "analyzer" /\ todo' = todo]_vars

\* The evaluation is under way with two analyzers registered during the
\* pre-processing pass: the second has emitted counterparts for one object and
\* other objects are still to be evaluated.
C12_Witness ==
    /\ pc = "counterparts"
    /\ Len(PwnAnalyzers) = 2
    /\ ai = 2
    /\ results # << >>
    /\ todo # {}

====
